---- MODULE Spec2Model ----
(***************************************************************************)
(* Audiobook ingestion and series reconciliation of the media tracker:     *)
(* AudibleManager (server/src/services/audible-manager.ts) over the        *)
(* audiobooks table of Database (server/src/utils/database.ts).            *)
(*                                                                         *)
(* Representation.  A value that JavaScript may leave undefined/null is a  *)
(* tagged record: Nil, Str(s) with s a sequence of one-character strings,  *)
(* or Num(n) with n the number in tenths (15 is 1.5), so that fractional   *)
(* series positions and the `pos++` stepping of the gap loops keep their   *)
(* arithmetic.  Timestamps (created_at, updated_at) are not modelled.      *)
(*                                                                         *)
(* Specifications.  Spec: one caller ingesting tables one after the other, *)
(* every storage call free to fail.  SpecUser: the same on a storage that  *)
(* does not fail, with markAsListened calls.  SpecMark: one ingestion and  *)
(* repeated markAsListened calls.  SpecConc: two calls interleaving at     *)
(* their awaits.  SpecDetect: one detectMissingSeriesBooks call on one     *)
(* series group.  SpecNormalize: one normalizeLibationData call on one     *)
(* row.  The online lookup                                                 *)
(* checkForNewerBooksInSeries of the older EnhancedAudibleManager is not   *)
(* part of AudibleManager and is not modelled.                             *)
(***************************************************************************)
EXTENDS Integers, Sequences, FiniteSets, TLC

VARIABLES store, nextId, run, log, marks, probe

vars == <<store, nextId, run, log, marks, probe>>

(***************************************************************************)
(* Bounds of the model.                                                    *)
(***************************************************************************)
MaxRuns == 2
MaxMarks == 1
MaxGroup == 3

(***************************************************************************)
(* Values.                                                                 *)
(***************************************************************************)
\* One decimal digit of fraction: numbers are held in tenths.
Scale == Len(<<"0", "1", "2", "3", "4", "5", "6", "7", "8", "9">>)

Nil == [t |-> "nil"]
Str(s) == [t |-> "str", s |-> s]
Num(n) == [t |-> "num", n |-> n]

Digits == <<"0", "1", "2", "3", "4", "5", "6", "7", "8", "9">>

IsDigit(c) == \E d \in 1..10 : Digits[d] = c

DigitVal(c) == (CHOOSE d \in 1..10 : Digits[d] = c) - 1

IsSpace(c) == c = " "

\* String.prototype.toLowerCase on the letters the patterns look at.
Lower(c) ==
  CASE c = "B" -> "b" [] c = "O" -> "o" [] c = "K" -> "k" [] c = "V" -> "v"
    [] c = "L" -> "l" [] c = "U" -> "u" [] c = "M" -> "m" [] c = "E" -> "e"
    [] c = "P" -> "p" [] c = "A" -> "a" [] c = "R" -> "r" [] c = "T" -> "t"
    [] c = "H" -> "h" [] c = "S" -> "s" [] c = "I" -> "i" [] c = "N" -> "n"
    [] OTHER -> c

RECURSIVE DecimalDigits(_)
DecimalDigits(n) ==
  IF n < 10 THEN <<Digits[n + 1]>>
  ELSE DecimalDigits(n \div 10) \o <<Digits[(n % 10) + 1]>>

\* String(number) for a non-negative number held in tenths: 20 is "2", 25 is "2.5".
NumToString(n) ==
  IF n % Scale = 0 THEN DecimalDigits(n \div Scale)
  ELSE DecimalDigits(n \div Scale) \o <<".">> \o DecimalDigits(n % Scale)

\* String(value) of a cell.
ToStr(v) == IF v.t = "num" THEN NumToString(v.n) ELSE v.s

\* JavaScript falsiness of a cell: undefined, null, "", 0.
Falsy(v) == \/ v.t = "nil"
            \/ (v.t = "str" /\ v.s = <<>>)
            \/ (v.t = "num" /\ v.n = 0)

Trim(s) ==
  IF \A i \in 1..Len(s) : IsSpace(s[i]) THEN <<>>
  ELSE LET a == CHOOSE i \in 1..Len(s) :
                  /\ ~IsSpace(s[i])
                  /\ \A j \in 1..(i - 1) : IsSpace(s[j])
           b == CHOOSE i \in 1..Len(s) :
                  /\ ~IsSpace(s[i])
                  /\ \A j \in (i + 1)..Len(s) : IsSpace(s[j])
       IN SubSeq(s, a, b)

\* End (exclusive) of the longest run of characters satisfying a class, from i.
RECURSIVE SkipSpaces(_, _)
SkipSpaces(s, i) ==
  IF i <= Len(s) /\ IsSpace(s[i]) THEN SkipSpaces(s, i + 1) ELSE i

RECURSIVE SkipDigits(_, _)
SkipDigits(s, i) ==
  IF i <= Len(s) /\ IsDigit(s[i]) THEN SkipDigits(s, i + 1) ELSE i

\* The literal word w (lower case) stands at s[i..], compared case-insensitively.
WordAt(s, i, w) ==
  /\ i + Len(w) - 1 <= Len(s)
  /\ \A j \in 1..Len(w) : Lower(s[i + j - 1]) = w[j]

RECURSIVE DigitsValue(_, _, _)
DigitsValue(s, i, j) ==
  IF i >= j THEN 0
  ELSE DigitsValue(s, i, j - 1) * 10 + DigitVal(s[j - 1])

\* Smallest element of a set of indices, 0 when there is none (no match).
MinOrZero(S) == IF S = {} THEN 0 ELSE CHOOSE i \in S : \A j \in S : i <= j

\* parseFloat of digits [ "." digits ] held in s[i..], in tenths; the model's
\* inputs carry at most one fractional digit.
FloatAt(s, i) ==
  LET j == SkipDigits(s, i)
      frac == IF j + 1 <= Len(s) /\ s[j] = "." /\ IsDigit(s[j + 1])
              THEN DigitVal(s[j + 1]) ELSE 0
  IN DigitsValue(s, i, j) * Scale + frac

(***************************************************************************)
(* Ingestion normalizer.                                                   *)
(***************************************************************************)
Throw == [t |-> "throw"]

possibleColumns ==
  [asin |-> <<"ASIN", "asin", "Asin">>,
   title |-> <<"Title", "title", "BookTitle", "Product Name">>,
   author |-> <<"Author", "author", "Authors", "By">>,
   narrator |-> <<"Narrator", "narrator", "Narrated By">>,
   series |-> <<"Series", "series", "Series Name">>,
   seriesPosition |-> <<"Series Position", "Book #", "Book", "#">>,
   releaseDate |-> <<"Release Date", "Publication Date", "Date Added">>,
   purchaseDate |-> <<"Purchase Date", "Date Purchased", "Added">>,
   length |-> <<"Length", "Duration", "Runtime">>,
   rating |-> <<"Rating", "My Rating", "Overall Rating">>,
   categories |-> <<"Categories", "Genre", "Genres">>]

\* row[name] !== undefined && row[name] !== null && row[name] !== ''
CellPresent(row, name) ==
  /\ name \in DOMAIN row
  /\ row[name].t # "nil"
  /\ row[name] # Str(<<>>)

\* The inner loop without its break: the last present alias wins.
FirstAliasNoBreak(row, names) ==
  LET hits == {i \in 1..Len(names) : CellPresent(row, names[i])}
  IN IF hits = {} THEN Nil
     ELSE row[names[CHOOSE i \in hits : \A j \in hits : j <= i]]

\* The inner loop over possibleNames with its break: the first present alias.
FirstAlias(row, names) ==
  LET hit == MinOrZero({i \in 1..Len(names) : CellPresent(row, names[i])})
  IN IF hit = 0 THEN Nil ELSE row[names[hit]]

\* A match of  ,?\s*<word>\s+\d+.*$  (or ,?\s*#\d+.*$ when needSpace is
\* FALSE) starting at index i; .*$ then runs to the end of the string.
AnnotationAt(s, i, word, needSpace) ==
  LET a == IF s[i] = "," THEN i + 1 ELSE i
      b == SkipSpaces(s, a)
      c == b + Len(word)
      d == IF needSpace THEN SkipSpaces(s, c) ELSE c
  IN /\ WordAt(s, b, word)
     /\ needSpace => d > c
     /\ d <= Len(s)
     /\ IsDigit(s[d])

\* String.prototype.replace(regex, ''): the leftmost match is cut away.
StripAnnotation(s, word, needSpace) ==
  LET m == MinOrZero({i \in 1..Len(s) : AnnotationAt(s, i, word, needSpace)})
  IN IF m = 0 THEN s ELSE SubSeq(s, 1, m - 1)

cleanSeriesName(series) ==
  IF Falsy(series) THEN Nil
  ELSE IF series.t = "num" THEN Throw   \* series.trim is not a function
  ELSE IF Trim(series.s) = <<>> THEN Nil
  ELSE Str(Trim(
         StripAnnotation(
           StripAnnotation(
             StripAnnotation(
               StripAnnotation(series.s, <<"b", "o", "o", "k">>, TRUE),
               <<"#">>, FALSE),
             <<"v", "o", "l", "u", "m", "e">>, TRUE),
           <<"p", "a", "r", "t">>, TRUE)))

parseSeriesPosition(position) ==
  IF Falsy(position) THEN Nil
  ELSE LET s == ToStr(position)
           m == MinOrZero({i \in 1..Len(s) : IsDigit(s[i])})
       IN IF m = 0 THEN Nil ELSE Num(FloatAt(s, m))

\* YYYY-MM-DD, the date-only ISO form, which Date parses as UTC midnight.
IsIsoDate(s) ==
  /\ Len(s) = 10
  /\ \A i \in {1, 2, 3, 4, 6, 7, 9, 10} : IsDigit(s[i])
  /\ s[5] = "-" /\ s[8] = "-"
  /\ DigitsValue(s, 6, 8) \in 1..12
  /\ DigitsValue(s, 9, 11) \in 1..28

\* new Date(n) of a number of milliseconds below one day.
EpochDay == <<"1", "9", "7", "0", "-", "0", "1", "-", "0", "1">>

\* new Date(dateStr) and toISOString().split('T')[0].  The date cells of the
\* model are ISO dates (day 1..28), text without any digit, which Date
\* rejects as invalid, or numbers, which Date takes as milliseconds since
\* the epoch.
parseDate(dateStr) ==
  IF Falsy(dateStr) THEN Nil
  ELSE IF dateStr.t = "num" THEN Str(EpochDay)
  ELSE IF IsIsoDate(dateStr.s) THEN dateStr
  ELSE Nil

LowerStr(s) == [i \in 1..Len(s) |-> Lower(s[i])]

\* (\d+)\s*<unit>  at index i: a digit run, spaces, then the unit word.
UnitAt(s, i, unit) ==
  /\ IsDigit(s[i])
  /\ WordAt(s, SkipSpaces(s, SkipDigits(s, i)), unit)

\* Start of the second number of  (\d+)\s*hrs?.*?(\d+)\s*mins?  matched at i.
MinsAfterHrs(s, i) ==
  MinOrZero({j \in (SkipSpaces(s, SkipDigits(s, i)) + 2)..Len(s) :
               UnitAt(s, j, <<"m", "i", "n">>)})

\* (\d+):(\d+)  at index i.
ColonAt(s, i) ==
  LET c == SkipDigits(s, i)
  IN /\ IsDigit(s[i])
     /\ c + 1 <= Len(s)
     /\ s[c] = ":"
     /\ IsDigit(s[c + 1])

\* parseDuration trying "minutes only" before the time format.
parseDurationMinutesFirst(duration) ==
  IF Falsy(duration) THEN Nil
  ELSE
    LET s == LowerStr(ToStr(duration))
        I == 1..Len(s)
        hm == MinOrZero({i \in I : UnitAt(s, i, <<"h", "r">>)
                                     /\ MinsAfterHrs(s, i) # 0})
        time == MinOrZero({i \in I : ColonAt(s, i)})
        mins == MinOrZero({i \in I : UnitAt(s, i, <<"m", "i", "n">>)})
        hrs == MinOrZero({i \in I : UnitAt(s, i, <<"h", "r">>)})
        int(i) == DigitsValue(s, i, SkipDigits(s, i))
    IN IF hm # 0
         THEN Num((int(hm) * 60 + int(MinsAfterHrs(s, hm))) * Scale)
       ELSE IF mins # 0 THEN Num(int(mins) * Scale)
       ELSE IF time # 0
         THEN Num((int(time) * 60 + int(SkipDigits(s, time) + 1)) * Scale)
       ELSE IF hrs # 0 THEN Num(int(hrs) * 60 * Scale)
       ELSE Nil

\* parseDuration: the four formats in the order of the code, on the
\* lower-cased String(duration).
parseDuration(duration) ==
  IF Falsy(duration) THEN Nil
  ELSE
    LET s == LowerStr(ToStr(duration))
        I == 1..Len(s)
        hm == MinOrZero({i \in I : UnitAt(s, i, <<"h", "r">>)
                                     /\ MinsAfterHrs(s, i) # 0})
        time == MinOrZero({i \in I : ColonAt(s, i)})
        mins == MinOrZero({i \in I : UnitAt(s, i, <<"m", "i", "n">>)})
        hrs == MinOrZero({i \in I : UnitAt(s, i, <<"h", "r">>)})
        int(i) == DigitsValue(s, i, SkipDigits(s, i))
    IN IF hm # 0
         THEN Num((int(hm) * 60 + int(MinsAfterHrs(s, hm))) * Scale)
       ELSE IF time # 0
         THEN Num((int(time) * 60 + int(SkipDigits(s, time) + 1)) * Scale)
       ELSE IF mins # 0 THEN Num(int(mins) * Scale)
       ELSE IF hrs # 0 THEN Num(int(hrs) * 60 * Scale)
       ELSE Nil

\* replace(/[^\d.]/g, '')
RECURSIVE KeepDigitsAndDots(_)
KeepDigitsAndDots(s) ==
  IF s = <<>> THEN <<>>
  ELSE (IF IsDigit(Head(s)) \/ Head(s) = "." THEN <<Head(s)>> ELSE <<>>)
       \o KeepDigitsAndDots(Tail(s))

\* parseFloat of the stripped text: NaN unless it starts with a digit, or
\* with a dot followed by a digit.
parseRating(rating) ==
  IF Falsy(rating) THEN Nil
  ELSE LET s == KeepDigitsAndDots(ToStr(rating))
       IN IF s # <<>> /\ IsDigit(s[1]) THEN Num(FloatAt(s, 1))
          ELSE IF Len(s) >= 2 /\ s[1] = "." /\ IsDigit(s[2])
            THEN Num(DigitVal(s[2]))
          ELSE Nil

OrElse(v, default) == IF Falsy(v) THEN default ELSE v

UnknownTitle == Str(<<"U", "n", "k", "n", "o", "w", "n", " ", "T", "i", "t", "l", "e">>)

normalizeLibationData(row) ==
  LET normalized == [f \in DOMAIN possibleColumns |->
                       FirstAlias(row, possibleColumns[f])]
      series == cleanSeriesName(normalized.series)
  IN IF series = Throw THEN Throw
     ELSE [asin |-> OrElse(normalized.asin, Nil),
           title |-> OrElse(normalized.title, UnknownTitle),
           author |-> OrElse(normalized.author, Nil),
           narrator |-> OrElse(normalized.narrator, Nil),
           series_name |-> series,
           series_position |-> parseSeriesPosition(normalized.seriesPosition),
           release_date |-> parseDate(normalized.releaseDate),
           purchase_date |-> parseDate(normalized.purchaseDate),
           length_minutes |-> parseDuration(normalized.length),
           rating |-> parseRating(normalized.rating),
           owned |-> TRUE,
           listened |-> FALSE]

(***************************************************************************)
(* The audiobooks table: asin TEXT UNIQUE is its only uniqueness           *)
(* constraint besides the AUTOINCREMENT row id.                            *)
(***************************************************************************)
\* TEXT column affinity: a number bound to a TEXT column is stored as text.
AsText(v) == IF v.t = "num" THEN Str(NumToString(v.n)) ELSE v

\* The row written by the INSERT of upsertAudiobook; parameters the caller
\* left undefined are bound as NULL.
StoredRow(id, bookData) ==
  [id |-> id,
   asin |-> AsText(bookData.asin),
   title |-> AsText(bookData.title),
   series_name |-> bookData.series_name,
   series_position |-> bookData.series_position,
   author |-> AsText(bookData.author),
   narrator |-> AsText(bookData.narrator),
   owned |-> bookData.owned,
   listened |-> bookData.listened,
   release_date |-> bookData.release_date,
   purchase_date |-> bookData.purchase_date,
   rating |-> bookData.rating,
   length_minutes |-> bookData.length_minutes]

\* A table without the UNIQUE constraint on asin: no row ever collides.
UniqueConflictNone(r, row) == row.asin # Nil /\ r.asin = row.asin /\ r.id = row.id

\* OR REPLACE: a stored row is deleted when the new row collides with it on
\* a UNIQUE column; NULLs never collide.
UniqueConflict(r, row) == row.asin # Nil /\ r.asin = row.asin

\* INSERT OR REPLACE on a store where two NULL asins collide as well.
upsertAudiobookNullCollides(st, id, bookData) ==
  LET row == StoredRow(id, bookData)
  IN {r \in st : r.asin # row.asin} \cup {row}

\* An upsert that also replaces the rows at the (series_name,
\* series_position) of the new row.
upsertAudiobookByPosition(st, id, bookData) ==
  LET row == StoredRow(id, bookData)
      same(r) == /\ row.series_name # Nil
                 /\ r.series_name = row.series_name
                 /\ r.series_position = row.series_position
  IN {r \in st : ~UniqueConflict(r, row) /\ ~same(r)} \cup {row}

\* An upsert that keeps the listened flag of the row it replaces.
upsertAudiobookKeepListened(st, id, bookData) ==
  LET row == StoredRow(id, bookData)
      old == {r \in st : UniqueConflict(r, row)}
  IN (st \ old)
     \cup {[row EXCEPT !.listened = @ \/ \E r \in old : r.listened]}

\* INSERT OR REPLACE INTO audiobooks (...) with a fresh row id.
upsertAudiobook(st, id, bookData) ==
  LET row == StoredRow(id, bookData)
  IN {r \in st : ~UniqueConflict(r, row)} \cup {row}

\* The count with `owned = 1` as its condition.
getMissingBooksCountOwned(st) == Cardinality({r \in st : r.owned})

\* SELECT COUNT(*) FROM audiobooks WHERE owned = 0
getMissingBooksCount(st) == Cardinality({r \in st : ~r.owned})

\* SUM(CASE WHEN owned = 1 AND length_minutes IS NOT NULL THEN
\* length_minutes ELSE 0 END) over the rows of one group, in tenths.
RECURSIVE SumListeningTime(_)
SumListeningTime(rows) ==
  IF rows = {} THEN 0
  ELSE LET r == CHOOSE x \in rows : TRUE
       IN (IF r.owned /\ r.length_minutes # Nil THEN r.length_minutes.n ELSE 0)
          + SumListeningTime(rows \ {r})

\* MIN(series_position) and MAX(series_position) of a group: the NULLs are
\* skipped, and the result is NULL when every position is NULL.
MinPosition(rows) ==
  LET P == {r.series_position.n : r \in {x \in rows : x.series_position # Nil}}
  IN IF P = {} THEN Nil ELSE Num(CHOOSE m \in P : \A x \in P : m <= x)

MaxPosition(rows) ==
  LET P == {r.series_position.n : r \in {x \in rows : x.series_position # Nil}}
  IN IF P = {} THEN Nil ELSE Num(CHOOSE m \in P : \A x \in P : m >= x)

\* The aggregate row of one GROUP BY group of getSeriesProgress (avg_rating
\* is left out).
SeriesAggregate(name, rows) ==
  [series_name |-> name,
   first_position |-> MinPosition(rows),
   latest_position |-> MaxPosition(rows),
   total_books |-> Cardinality(rows),
   owned_books |-> Cardinality({r \in rows : r.owned}),
   listened_books |-> Cardinality({r \in rows : r.listened}),
   missing_books |-> Cardinality({r \in rows : ~r.owned}),
   total_listening_time |-> Num(SumListeningTime(rows))]

\* The value of a division by zero of a positive number.
Infinity == [t |-> "inf"]

\* Math.round(a / b * 100) for counts a >= 0 and b > 0: halves round up.
RoundPercent(a, b) == (200 * a + b) \div (2 * b)

\* The fields rows.map adds to an aggregate row.  null + 1 is 1.
SeriesProgressRow(series) ==
  [f \in DOMAIN series \cup {"completion_percentage", "ownership_percentage",
                             "total_hours", "next_book_position"} |->
     IF f = "completion_percentage"
       THEN IF series.listened_books = 0 THEN Num(0)
            ELSE IF series.owned_books = 0 THEN Infinity
            ELSE Num(RoundPercent(series.listened_books, series.owned_books) * Scale)
     ELSE IF f = "ownership_percentage"
       THEN Num(RoundPercent(series.owned_books, series.total_books) * Scale)
     ELSE IF f = "total_hours"
       THEN Num(((series.total_listening_time.n + 30 * Scale)
                   \div (60 * Scale)) * Scale)
     ELSE IF f = "next_book_position"
       THEN IF series.latest_position = Nil THEN Num(Scale)
            ELSE Num(series.latest_position.n + Scale)
     ELSE series[f]]

\* getSeriesProgress with COUNT(*) as its owned_books column.
getSeriesProgressCountAll(st) ==
  LET names == {r.series_name : r \in st} \ {Nil}
      group(name) == {r \in st : r.series_name = name}
  IN {SeriesProgressRow([SeriesAggregate(name, group(name))
                           EXCEPT !.owned_books = Cardinality(group(name))]) :
        name \in {n \in names : Cardinality(group(n)) > 1}}

\* SELECT ... FROM audiobooks WHERE series_name IS NOT NULL GROUP BY
\* series_name HAVING COUNT(*) > 1, each row then extended by rows.map: the
\* rows of the result; ORDER BY only fixes the order in which they are
\* delivered.
getSeriesProgress(st) ==
  LET names == {r.series_name : r \in st} \ {Nil}
      group(name) == {r \in st : r.series_name = name}
  IN {SeriesProgressRow(SeriesAggregate(name, group(name))) :
        name \in {n \in names : Cardinality(group(n)) > 1}}

(***************************************************************************)
(* Series reconciliation.                                                  *)
(***************************************************************************)
Truthy(v) == ~Falsy(v)

\* seriesMap of parseLibationExport: a Map in insertion order, here a
\* sequence of [name, books] entries.
RECURSIVE BuildSeriesMap(_)
BuildSeriesMap(books) ==
  IF books = <<>> THEN <<>>
  ELSE LET m == BuildSeriesMap(SubSeq(books, 1, Len(books) - 1))
           book == books[Len(books)]
           at == MinOrZero({i \in 1..Len(m) : m[i].name = book.series_name})
       IN IF ~Truthy(book.series_name) THEN m
          ELSE IF at = 0
            THEN Append(m, [name |-> book.series_name, books |-> <<book>>])
          ELSE [m EXCEPT ![at].books = Append(@, book)]

\* a.series_position || 0
SortKey(book) ==
  IF Falsy(book.series_position) THEN 0 ELSE book.series_position.n

\* Array.prototype.sort is stable: equal keys keep their input order.
RECURSIVE SortByPosition(_)
SortByPosition(books) ==
  IF books = <<>> THEN <<>>
  ELSE LET front == SortByPosition(SubSeq(books, 1, Len(books) - 1))
           b == books[Len(books)]
           n == Cardinality({i \in 1..Len(front) : SortKey(front[i]) <= SortKey(b)})
       IN SubSeq(front, 1, n) \o <<b>> \o SubSeq(front, n + 1, Len(front))

\* The loop with `pos += 2` as its step.
RECURSIVE LoopPositionsByTwo(_, _)
LoopPositionsByTwo(from, to) ==
  IF from < to THEN <<from>> \o LoopPositionsByTwo(from + 2 * Scale, to) ELSE <<>>

\* for (let pos = from; pos < to; pos++): the values pos takes.
RECURSIVE LoopPositions(_, _)
LoopPositions(from, to) ==
  IF from < to THEN <<from>> \o LoopPositions(from + Scale, to) ELSE <<>>

\* The gap loop with `pos <= next` as its bound.
RECURSIVE InteriorGapsInclusive(_, _)
InteriorGapsInclusive(sortedBooks, i) ==
  IF i >= Len(sortedBooks) THEN <<>>
  ELSE LET current == sortedBooks[i].series_position.n
           next == sortedBooks[i + 1].series_position.n
       IN (IF next - current > Scale
           THEN LoopPositions(current + Scale, next + 1) ELSE <<>>)
          \o InteriorGapsInclusive(sortedBooks, i + 1)

\* The gap loop over adjacent pairs sortedBooks[i], sortedBooks[i + 1], i >= from.
RECURSIVE InteriorGaps(_, _)
InteriorGaps(sortedBooks, i) ==
  IF i >= Len(sortedBooks) THEN <<>>
  ELSE LET current == sortedBooks[i].series_position.n
           next == sortedBooks[i + 1].series_position.n
       IN (IF next - current > Scale
           THEN LoopPositions(current + Scale, next) ELSE <<>>)
          \o InteriorGaps(sortedBooks, i + 1)

\* The group loop without its "books before the first one" part.
GroupGapsNoLeading(books) ==
  LET positioned == SelectSeq(books, LAMBDA b : b.series_position # Nil)
      sortedBooks == SortByPosition(positioned)
  IN IF Len(books) < 2 THEN <<>>
     ELSE IF Len(sortedBooks) < 2 THEN <<>>
     ELSE InteriorGaps(sortedBooks, 1)

\* The group loop without the `sortedBooks.length < 2` check.
GroupGapsUnchecked(books) ==
  LET positioned == SelectSeq(books, LAMBDA b : b.series_position # Nil)
      sortedBooks == SortByPosition(positioned)
      firstPos == sortedBooks[1].series_position.n
  IN IF Len(books) < 2 THEN <<>>
     ELSE IF sortedBooks = <<>> THEN <<>>
     ELSE InteriorGaps(sortedBooks, 1)
          \o (IF firstPos > Scale THEN LoopPositions(Scale, firstPos) ELSE <<>>)

\* The body of the loop of detectMissingSeriesBooks for one series group:
\* the positions passed to addMissingBookPlaceholder, in call order.
GroupGaps(books) ==
  LET positioned == SelectSeq(books, LAMBDA b : b.series_position # Nil)
      sortedBooks == SortByPosition(positioned)
      firstPos == sortedBooks[1].series_position.n
  IN IF Len(books) < 2 THEN <<>>
     ELSE IF Len(sortedBooks) < 2 THEN <<>>
     ELSE InteriorGaps(sortedBooks, 1)
          \o (IF firstPos > Scale THEN LoopPositions(Scale, firstPos) ELSE <<>>)

\* detectMissingSeriesBooks passing sortedBooks[0].author, the author of
\* the positioned record with the smallest position.
RECURSIVE detectMissingSeriesBooksSortedAuthor(_)
detectMissingSeriesBooksSortedAuthor(seriesMap) ==
  IF seriesMap = <<>> THEN <<>>
  ELSE LET e == Head(seriesMap)
           gaps == GroupGaps(e.books)
           sortedBooks ==
             SortByPosition(SelectSeq(e.books, LAMBDA b : b.series_position # Nil))
       IN [i \in 1..Len(gaps) |->
             [seriesName |-> e.name, position |-> gaps[i],
              author |-> sortedBooks[1].author]]
          \o detectMissingSeriesBooksSortedAuthor(Tail(seriesMap))

\* detectMissingSeriesBooks: every addMissingBookPlaceholder(seriesName, pos,
\* books[0].author) call it makes, in order.
RECURSIVE detectMissingSeriesBooks(_)
detectMissingSeriesBooks(seriesMap) ==
  IF seriesMap = <<>> THEN <<>>
  ELSE LET e == Head(seriesMap)
           gaps == GroupGaps(e.books)
       IN [i \in 1..Len(gaps) |->
             [seriesName |-> e.name, position |-> gaps[i],
              author |-> e.books[1].author]]
          \o detectMissingSeriesBooks(Tail(seriesMap))

BookWord == <<" ", "B", "o", "o", "k", " ">>

\* The record addMissingBookPlaceholder hands to upsertAudiobook.
Placeholder(seriesName, position, author) ==
  [asin |-> Nil,
   title |-> Str(seriesName.s \o BookWord \o NumToString(position)),
   author |-> author,
   narrator |-> Nil,
   series_name |-> seriesName,
   series_position |-> Num(position),
   release_date |-> Nil,
   purchase_date |-> Nil,
   length_minutes |-> Nil,
   rating |-> Nil,
   owned |-> FALSE,
   listened |-> FALSE]

(***************************************************************************)
(* Source tables: the rows XLSX.utils.sheet_to_json yields, each a         *)
(* function from column header to cell.                                    *)
(***************************************************************************)
Foo == <<"F", "o", "o">>
Bar == <<"B", "a", "r">>
Baz == <<"B", "a", "z">>

Asin(c, n) == Str(<<c, Digits[n + 1]>>)

FooRow(n, pos) ==
  ("ASIN" :> Asin("A", n)) @@ ("Title" :> Str(<<"f", Digits[n + 1]>>))
  @@ ("Author" :> Str(<<"X">>)) @@ ("Series" :> Str(Foo))
  @@ ("Series Position" :> Num(pos))
  @@ ("Length" :> Str(<<"1", " ", "h", "r">>))

BarRow(n, series, pos) ==
  ("asin" :> Asin("B", n)) @@ ("By" :> Str(<<"Y">>))
  @@ ("Series Name" :> Str(series)) @@ ("Book #" :> pos)

BazRow(pos) ==
  ("Title" :> Str(<<"z">>)) @@ ("Series" :> Str(Baz)) @@ ("#" :> pos)

Tables ==
  << \* 1: series Foo at positions 1, 2, 4
     <<FooRow(1, 10), FooRow(2, 20), FooRow(3, 40)>>,
     \* 2: the book of Foo at position 3, and the one at position 4 again
     <<FooRow(4, 30), FooRow(3, 40)>>,
     \* 3: a fractional position, annotated series names, text positions
     <<BarRow(1, Bar \o <<",", " ", "B", "o", "o", "k", " ", "1">>, Str(<<"#", "1">>)),
       BarRow(2, Bar, Str(<<"1", ".", "5">>)),
       BarRow(3, Bar \o <<" ", "#", "3">>, Num(30))>>,
     \* 4: two series, each with a gap
     <<FooRow(1, 10), BarRow(1, Bar, Num(10)), FooRow(3, 40), BarRow(3, Bar, Num(30))>>,
     \* 5: a single-record series, a series with one positioned record of
     \*    two, a row with neither series nor ASIN, and a row whose series
     \*    cell is nothing but an annotation
     <<("ASIN" :> Asin("C", 1)) @@ BazRow(Num(20)),
       BarRow(3, Bar, Num(30)),
       BarRow(4, Bar, Str(<<>>)),
       ("Author" :> Str(<<"X">>)),
       ("ASIN" :> Asin("C", 3)) @@ ("Series" :> Str(<<"B", "o", "o", "k", " ", "3">>))>>,
     \* 6: rows without ASIN, a leading gap
     <<BazRow(Num(30)), BazRow(Str(<<"4">>))>>,
     \* 7: a numeric Series cell
     <<FooRow(1, 10), ("ASIN" :> Asin("C", 2)) @@ ("Series" :> Num(19840))>>,
     \* 8: the book with ASIN A3 again, now listed at position 5
     <<FooRow(3, 50)>>,
     \* 9: a series whose first row has no position and another author
     <<("ASIN" :> Asin("A", 5)) @@ ("Author" :> Str(<<"Z">>)) @@ ("Series" :> Str(Foo)),
       FooRow(1, 10), FooRow(4, 30)>>,
     \* 10: one ASIN listed twice, at positions 1 and 3
     <<FooRow(1, 10), FooRow(1, 30)>> >>

(***************************************************************************)
(* State.                                                                  *)
(*   store   the rows of the audiobooks table                              *)
(*   nextId  the next AUTOINCREMENT row id                                 *)
(*   run     per caller, the position of its parseLibationExport call      *)
(*   log     the finished parseLibationExport calls, oldest first          *)
(*   marks   the markAsListened calls made, with their results             *)
(*   probe   input and output of a direct detectMissingSeriesBooks or       *)
(*           normalizeLibationData call                                    *)
(***************************************************************************)
Procs == {1, 2}

NoResult == [processed |-> -1, series |-> -1, missingBooksFound |-> -1]

IdleRun ==
  [pc |-> "idle", table |-> 0, books |-> <<>>, seriesMap |-> <<>>,
   calls |-> <<>>, i |-> 1, k |-> 1, before |-> {}, failed |-> {},
   result |-> NoResult]

NoProbe == [stage |-> "none", books |-> <<>>, calls |-> <<>>]

Init ==
  /\ store = {}
  /\ nextId = 1
  /\ run = [p \in Procs |-> IdleRun]
  /\ log = <<>>
  /\ marks = <<>>
  /\ probe = NoProbe

Active(r) == r.pc \in {"upsert", "placeholder", "count"}

\* A call that reconciles first and upserts its real records afterwards.
StageReconcileFirst(r) ==
  IF r.k <= Len(r.calls) THEN "placeholder"
  ELSE IF r.i <= Len(r.books) THEN "upsert"
  ELSE "count"

\* Where a call stands after its synchronous prefix: the loop over
\* processedBooks, then the placeholder calls, then the count.
Stage(r) ==
  IF r.i <= Len(r.books) THEN "upsert"
  ELSE IF r.k <= Len(r.calls) THEN "placeholder"
  ELSE "count"

LogEntry(p, r, after) ==
  [proc |-> p, table |-> r.table, books |-> r.books, calls |-> r.calls,
   before |-> r.before, after |-> after,
   outcome |-> r.pc, result |-> r.result, failed |-> r.failed]

\* The loop `for (const row of data)` over each source table: the
\* normalized rows, the series map built from them and the placeholder
\* calls that map leads to.  They depend on the table alone.
NormalizedTables ==
  [t \in 1..Len(Tables) |->
     [j \in 1..Len(Tables[t]) |-> normalizeLibationData(Tables[t][j])]]

NormalizedTable(t) == NormalizedTables[t]

TableThrows == {t \in 1..Len(Tables) :
                  \E j \in 1..Len(Tables[t]) : NormalizedTables[t][j] = Throw}

SeriesMaps ==
  [t \in 1..Len(Tables) |->
     IF t \in TableThrows THEN <<>> ELSE BuildSeriesMap(NormalizedTables[t])]

PlaceholderCalls ==
  [t \in 1..Len(Tables) |-> detectMissingSeriesBooks(SeriesMaps[t])]

\* parseLibationExport with a catch around its synchronous prefix that
\* answers a failed read with an empty summary.
StartSwallowing(p, t, readOk) ==
  /\ ~Active(run[p])
  /\ Len(log) + Cardinality({q \in Procs : Active(run[q])}) < MaxRuns
  /\ LET thrown == ~readOk \/ t \in TableThrows
         r0 == [IdleRun EXCEPT !.table = t, !.before = store]
         r1 == [r0 EXCEPT !.books = NormalizedTable(t), !.seriesMap = SeriesMaps[t],
                          !.calls = PlaceholderCalls[t]]
     IN IF thrown
        THEN LET r == [r0 EXCEPT !.pc = "returned",
                                 !.failed = {[kind |-> "read", n |-> 0]},
                                 !.result = [processed |-> 0, series |-> 0,
                                             missingBooksFound |-> 0]]
             IN /\ run' = [run EXCEPT ![p] = r]
                /\ log' = Append(log, LogEntry(p, r, store))
        ELSE /\ run' = [run EXCEPT ![p] = [r1 EXCEPT !.pc = Stage(r1)]]
             /\ log' = log
  /\ UNCHANGED <<store, nextId, marks, probe>>

\* parseLibationExport up to its first await: read the file, normalize the
\* rows, group them by series.  A failed read or a throwing normalization
\* rejects the call before any upsert.
Start(p, t, readOk) ==
  /\ ~Active(run[p])
  /\ Len(log) + Cardinality({q \in Procs : Active(run[q])}) < MaxRuns
  /\ LET processedBooks == NormalizedTable(t)
         thrown == ~readOk \/ t \in TableThrows
         seriesMap == SeriesMaps[t]
         r0 == [IdleRun EXCEPT !.table = t, !.before = store]
         r1 == [r0 EXCEPT !.books = processedBooks, !.seriesMap = seriesMap,
                          !.calls = PlaceholderCalls[t]]
     IN IF thrown
        THEN LET r == [r0 EXCEPT !.pc = "rejected",
                                 !.failed = {[kind |-> "read", n |-> 0]}]
             IN /\ run' = [run EXCEPT ![p] = r]
                /\ log' = Append(log, LogEntry(p, r, store))
        ELSE /\ run' = [run EXCEPT ![p] = [r1 EXCEPT !.pc = Stage(r1)]]
             /\ log' = log
  /\ UNCHANGED <<store, nextId, marks, probe>>

\* One iteration of `for (const book of processedBooks) await
\* this.upsertAudiobook(book)`; a rejected upsert rejects the whole call.
UpsertReal(p, ok) ==
  /\ run[p].pc = "upsert"
  /\ LET r == run[p]
     IN IF ok
        THEN LET r1 == [r EXCEPT !.i = @ + 1]
             IN /\ store' = upsertAudiobook(store, nextId, r.books[r.i])
                /\ nextId' = nextId + 1
                /\ run' = [run EXCEPT ![p] = [r1 EXCEPT !.pc = Stage(r1)]]
                /\ log' = log
        ELSE LET r1 == [r EXCEPT !.pc = "rejected",
                                 !.failed = @ \cup {[kind |-> "real", n |-> r.i]}]
             IN /\ run' = [run EXCEPT ![p] = r1]
                /\ log' = Append(log, LogEntry(p, r1, store))
                /\ UNCHANGED <<store, nextId>>
  /\ UNCHANGED <<marks, probe>>

\* addMissingBookPlaceholder without its try/catch: a rejected upsert
\* rejects the whole parseLibationExport call.
addMissingBookPlaceholderNoCatch(p, ok) ==
  /\ run[p].pc = "placeholder"
  /\ LET r == run[p]
         c == r.calls[r.k]
         r1 == [r EXCEPT !.k = @ + 1]
         r2 == [r EXCEPT !.pc = "rejected",
                         !.failed = @ \cup {[kind |-> "placeholder", n |-> r.k]}]
     IN IF ok
        THEN /\ run' = [run EXCEPT ![p] = [r1 EXCEPT !.pc = Stage(r1)]]
             /\ store' = upsertAudiobook(store, nextId,
                           Placeholder(c.seriesName, c.position, c.author))
             /\ nextId' = nextId + 1
             /\ log' = log
        ELSE /\ run' = [run EXCEPT ![p] = r2]
             /\ log' = Append(log, LogEntry(p, r2, store))
             /\ UNCHANGED <<store, nextId>>
  /\ UNCHANGED <<marks, probe>>

\* One addMissingBookPlaceholder call of detectMissingSeriesBooks; its
\* try/catch absorbs a rejected upsert.
addMissingBookPlaceholder(p, ok) ==
  /\ run[p].pc = "placeholder"
  /\ LET r == run[p]
         c == r.calls[r.k]
         r1 == [r EXCEPT !.k = @ + 1,
                         !.failed = IF ok THEN @
                                    ELSE @ \cup {[kind |-> "placeholder", n |-> r.k]}]
     IN /\ run' = [run EXCEPT ![p] = [r1 EXCEPT !.pc = Stage(r1)]]
        /\ IF ok
           THEN /\ store' = upsertAudiobook(store, nextId,
                              Placeholder(c.seriesName, c.position, c.author))
                /\ nextId' = nextId + 1
           ELSE UNCHANGED <<store, nextId>>
  /\ UNCHANGED <<log, marks, probe>>

\* The return statement counting the placeholder calls of this batch
\* in place of the stored rows with owned = 0.
ReturnBatchCount(p, ok) ==
  /\ run[p].pc = "count"
  /\ LET r == run[p]
         r1 == IF ok
               THEN [r EXCEPT !.pc = "returned",
                              !.result = [processed |-> Len(r.books),
                                          series |-> Len(r.seriesMap),
                                          missingBooksFound |-> Len(r.calls)]]
               ELSE [r EXCEPT !.pc = "rejected",
                              !.failed = @ \cup {[kind |-> "count", n |-> 0]}]
     IN /\ run' = [run EXCEPT ![p] = r1]
        /\ log' = Append(log, LogEntry(p, r1, store))
  /\ UNCHANGED <<store, nextId, marks, probe>>

\* The return statement: await getMissingBooksCount() and build the summary.
Return(p, ok) ==
  /\ run[p].pc = "count"
  /\ LET r == run[p]
         r1 == IF ok
               THEN [r EXCEPT !.pc = "returned",
                              !.result = [processed |-> Len(r.books),
                                          series |-> Len(r.seriesMap),
                                          missingBooksFound |-> getMissingBooksCount(store)]]
               ELSE [r EXCEPT !.pc = "rejected",
                              !.failed = @ \cup {[kind |-> "count", n |-> 0]}]
     IN /\ run' = [run EXCEPT ![p] = r1]
        /\ log' = Append(log, LogEntry(p, r1, store))
  /\ UNCHANGED <<store, nextId, marks, probe>>

\* The UPDATE without its WHERE clause: every row is set.
markAsListenedAllRows(bookId) ==
  /\ store' = {[r EXCEPT !.listened = TRUE] : r \in store}
  /\ marks' = Append(marks, [id |-> bookId,
                             changed |-> \E r \in store : r.id = bookId])
  /\ UNCHANGED <<nextId, run, log, probe>>

\* UPDATE audiobooks SET listened = 1 WHERE id = ?; true when a row changed.
markAsListened(bookId) ==
  /\ store' = {IF r.id = bookId THEN [r EXCEPT !.listened = TRUE] ELSE r : r \in store}
  /\ marks' = Append(marks, [id |-> bookId,
                             changed |-> \E r \in store : r.id = bookId])
  /\ UNCHANGED <<nextId, run, log, probe>>

\* The caller of the sequential specifications.
Main == CHOOSE p \in Procs : \A q \in Procs : p <= q

\* One caller ingesting tables one after the other; any storage call may fail.
Next ==
  \/ \E t \in 1..Len(Tables), readOk \in BOOLEAN : Start(Main, t, readOk)
  \/ \E ok \in BOOLEAN : UpsertReal(Main, ok)
  \/ \E ok \in BOOLEAN : addMissingBookPlaceholder(Main, ok)
  \/ \E ok \in BOOLEAN : Return(Main, ok)

Spec == Init /\ [][Next]_vars

\* Ingestions on a storage that does not fail, with markAsListened calls
\* arriving at any time.
UserTables == {1, 2, 5, 8}

NextUser ==
  \/ \E t \in UserTables : Start(Main, t, TRUE)
  \/ UpsertReal(Main, TRUE)
  \/ addMissingBookPlaceholder(Main, TRUE)
  \/ Return(Main, TRUE)
  \/ \E bookId \in 1..nextId : Len(marks) < MaxMarks /\ markAsListened(bookId)

SpecUser == Init /\ [][NextUser]_vars

\* One ingestion on a storage that does not fail, with markAsListened calls
\* arriving at any time, repeated ones among them.
MarkTables == UserTables \cup {10}

NextMark ==
  \/ \E t \in MarkTables : log = <<>> /\ Start(Main, t, TRUE)
  \/ UpsertReal(Main, TRUE)
  \/ addMissingBookPlaceholder(Main, TRUE)
  \/ Return(Main, TRUE)
  \/ \E bookId \in 1..nextId :
       Len(marks) < MaxMarks + 1 /\ markAsListened(bookId)

SpecMark == Init /\ [][NextMark]_vars

\* Two POST /sync/audible requests in flight on one AudibleManager: their
\* parseLibationExport calls interleave at every await, each storage call
\* being one step.  Each request makes its one call; the storage does not
\* fail.
NextConc ==
  \/ \E p \in Procs, t \in UserTables : run[p] = IdleRun /\ Start(p, t, TRUE)
  \/ \E p \in Procs : UpsertReal(p, TRUE)
  \/ \E p \in Procs : addMissingBookPlaceholder(p, TRUE)
  \/ \E p \in Procs : Return(p, TRUE)

SpecConc == Init /\ [][NextConc]_vars

(***************************************************************************)
(* detectMissingSeriesBooks called on one series group: the group is drawn *)
(* from normalized rows of series Foo whose position cells range over      *)
(* PositionCells; DetectProbe runs the whole reconciliation of that group  *)
(* on a storage that does not fail.                                        *)
(***************************************************************************)
PositionCells ==
  {Nil, Str(<<"0">>), Num(10), Num(15), Str(<<"2">>), Num(30), Num(40), Num(50)}

ProbeRow(cell) ==
  ("Author" :> Str(<<"X">>)) @@ ("Series" :> Str(Foo)) @@ ("Series Position" :> cell)

InitDetect ==
  /\ store = {}
  /\ nextId = 1
  /\ run = [p \in Procs |-> IdleRun]
  /\ log = <<>>
  /\ marks = <<>>
  /\ \E n \in 0..MaxGroup : \E cells \in [1..n -> PositionCells] :
       probe = [stage |-> "in",
                books |-> [i \in 1..n |-> normalizeLibationData(ProbeRow(cells[i]))],
                calls |-> <<>>]

\* The placeholder upserts of a list of calls, applied in order.
RECURSIVE ApplyCalls(_, _, _)
ApplyCalls(st, id, calls) ==
  IF calls = <<>> THEN st
  ELSE LET c == Head(calls)
       IN ApplyCalls(upsertAudiobook(st, id, Placeholder(c.seriesName, c.position, c.author)),
                     id + 1, Tail(calls))

DetectProbe ==
  /\ probe.stage = "in"
  /\ LET calls == detectMissingSeriesBooks(BuildSeriesMap(probe.books))
     IN /\ probe' = [probe EXCEPT !.stage = "out", !.calls = calls]
        /\ store' = ApplyCalls(store, nextId, calls)
        /\ nextId' = nextId + Len(calls)
  /\ UNCHANGED <<run, log, marks>>

NextDetect == DetectProbe

SpecDetect == InitDetect /\ [][NextDetect]_vars

(***************************************************************************)
(* normalizeLibationData called on one row.  The row carries cells under   *)
(* the alias columns of one field, each alias either missing from the row  *)
(* or holding a cell of RowCells, and possibly a column no alias names.    *)
(***************************************************************************)
RowCells ==
  {Nil, Str(<<>>), Num(0), Num(45), Str(Foo),
   Str(<<"2", "0", "2", "0", "-", "0", "1", "-", "1", "5">>),
   Str(<<"B", "o", "o", "k", " ", "3">>)}

\* Cells of a length column: text in each of the forms parseDuration
\* knows, in several of them at once, and in none.
DurationCells ==
  {Str(<<"1", " ", "h", "r", " ", "5", " ", "m", "i", "n">>),
   Str(<<"2", " ", "H", "r", "s", " ", "3", "0", " ", "M", "i", "n", "s">>),
   Str(<<"1", ":", "0", "5">>),
   Str(<<"1", ":", "0", "5", ":", "3", "0">>),
   Str(<<"4", "5", " ", "m", "i", "n">>),
   Str(<<"2", " ", "h", "r", "s">>),
   Str(<<"1", " ", "h", "r", " ", "5", " ", "m", "i", "n", " ", "2", ":", "0", "0">>),
   Str(<<"2", ":", "3", "0", " ", "5", " ", "m", "i", "n">>),
   Str(<<"5", " ", "m", "i", "n", " ", "2", " ", "h", "r">>),
   Str(<<"9", "0">>)}

\* The cells a column of the field f holds.  The date columns hold what
\* parseDate is defined on here: no text with digits other than ISO dates.
CellsOf(f) ==
  IF f = "length" THEN RowCells \cup DurationCells
  ELSE IF f \in {"releaseDate", "purchaseDate"}
    THEN RowCells \ {Str(<<"B", "o", "o", "k", " ", "3">>)}
  ELSE RowCells

Missing == [t |-> "missing"]

\* The row whose column names[i] holds pick[i], unless pick[i] is Missing.
RowOf(names, pick, extra) ==
  LET cols == {names[i] : i \in {j \in 1..Len(names) : pick[j] # Missing}}
      cell(c) == pick[CHOOSE i \in 1..Len(names) : names[i] = c]
  IN [c \in cols \cup (IF extra THEN {"Notes"} ELSE {}) |->
        IF c = "Notes" THEN Str(Bar) ELSE cell(c)]

InitNormalize ==
  /\ store = {}
  /\ nextId = 1
  /\ run = [p \in Procs |-> IdleRun]
  /\ log = <<>>
  /\ marks = <<>>
  /\ \E f \in DOMAIN possibleColumns, extra \in BOOLEAN :
       \E pick \in [1..Len(possibleColumns[f]) -> CellsOf(f) \cup {Missing}] :
         probe = [stage |-> "raw",
                  row |-> RowOf(possibleColumns[f], pick, extra),
                  book |-> Nil]

NormalizeProbe ==
  /\ probe.stage = "raw"
  /\ probe' = [probe EXCEPT !.stage = "normalized",
                            !.book = normalizeLibationData(probe.row)]
  /\ UNCHANGED <<store, nextId, run, log, marks>>

NextNormalize == NormalizeProbe

SpecNormalize == InitNormalize /\ [][NextNormalize]_vars

(***************************************************************************)
(* Properties.                                                             *)
(***************************************************************************)
\* A stored row without its row id.
Fields(r) == [f \in DOMAIN r \ {"id"} |-> r[f]]

\* The stored records compared by their fields: how many rows carry each.
Content(st) ==
  [f \in {Fields(r) : r \in st} |-> Cardinality({r \in st : Fields(r) = f})]

IsPlaceholderRow(r) == r.asin = Nil /\ ~r.owned

\* A finished call during which no storage call failed.
CleanReturn(e) == e.outcome = "returned" /\ e.failed = {}

\* C1: ingesting a table and then the identical table again leaves the
\* stored records, compared by their fields, as they were after the first
\* ingestion: no duplicate placeholder and no duplicate real record.
C1_IdempotentIngestion ==
  \A n \in 1..(Len(log) - 1) :
    ( /\ CleanReturn(log[n]) /\ CleanReturn(log[n + 1])
      /\ log[n + 1].table = log[n].table
      /\ log[n + 1].before = log[n].after )
    => Content(log[n + 1].after) = Content(log[n].after)

\* C2: the store never holds two placeholder rows for the same
\* (series name, series position).
C2_OnePlaceholderPerPosition ==
  \A r1, r2 \in store :
    ( /\ IsPlaceholderRow(r1) /\ IsPlaceholderRow(r2)
      /\ r1.series_name = r2.series_name
      /\ r1.series_position = r2.series_position )
    => r1.id = r2.id

\* C3: when the store holds a placeholder for (S, p) and an ingestion brings
\* a real row for (S, p), the store afterwards holds exactly one row for
\* (S, p), and that row is owned.
C3_PlaceholderSuperseded ==
  \A n \in 1..Len(log) :
    CleanReturn(log[n]) =>
      \A ph \in log[n].before :
        LET books == NormalizedTable(log[n].table)
            at == {r \in log[n].after :
                     /\ r.series_name = ph.series_name
                     /\ r.series_position = ph.series_position}
        IN ( /\ IsPlaceholderRow(ph)
             /\ \E j \in 1..Len(books) :
                  /\ books[j].series_name = ph.series_name
                  /\ books[j].series_position = ph.series_position )
           => /\ Cardinality(at) = 1
              /\ \A r \in at : r.owned

(***************************************************************************)
(* Properties of one reconciled series group (SpecDetect).                 *)
(***************************************************************************)
IsInteger(n) == n % Scale = 0

\* The positions of the group's records that have one.
ProbePositions ==
  {probe.books[i].series_position.n :
     i \in {j \in 1..Len(probe.books) : probe.books[j].series_position # Nil}}

ProbePositioned ==
  {j \in 1..Len(probe.books) : probe.books[j].series_position # Nil}

ProbeCallPositions == {probe.calls[k].position : k \in 1..Len(probe.calls)}

Smallest(S) == CHOOSE m \in S : \A x \in S : m <= x

Largest(S) == CHOOSE m \in S : \A x \in S : m >= x

\* Every placeholder of the group reached the store, once per call.
ProbeStored ==
  /\ Cardinality(store) = Len(probe.calls)
  /\ \A k \in 1..Len(probe.calls) :
       \E r \in store : /\ ~r.owned
                        /\ r.series_position = Num(probe.calls[k].position)

\* C4: for a group whose positions are all integers, the placeholders above
\* the smallest position are exactly the integers lying strictly between two
\* adjacent positions that differ by more than 1, each synthesized once and
\* unowned.
C4_InteriorGaps ==
  ( /\ probe.stage = "out"
    /\ Cardinality(ProbePositioned) >= 2
    /\ \A x \in ProbePositions : IsInteger(x) )
  => LET P == ProbePositions
         above == {k \in 1..Len(probe.calls) : probe.calls[k].position > Smallest(P)}
         gaps == {g \in Smallest(P)..Largest(P) :
                    /\ IsInteger(g)
                    /\ \E a, b \in P :
                         /\ a < g /\ g < b /\ b - a > Scale
                         /\ \A x \in P : ~(a < x /\ x < b)}
     IN /\ {probe.calls[k].position : k \in above} = gaps
        /\ Cardinality(above) = Cardinality(gaps)
        /\ ProbeStored

C4_Witness ==
  /\ probe.stage = "out"
  /\ ProbePositions = {10, 30, 50}
  /\ ProbeCallPositions = {20, 40}
  /\ ProbeStored

\* C5: for a group with at least two positioned records whose smallest
\* position is m, the placeholders below m are the integers p with
\* 1 <= p < m when m > 1, and there is none when m <= 1.
C5_LeadingGap ==
  ( /\ probe.stage = "out"
    /\ Cardinality(ProbePositioned) >= 2 )
  => LET m == Smallest(ProbePositions)
         below == {k \in 1..Len(probe.calls) : probe.calls[k].position < m}
         lead == {p \in 1..m : IsInteger(p) /\ Scale <= p /\ p < m}
     IN /\ {probe.calls[k].position : k \in below} = lead
        /\ Cardinality(below) = Cardinality(lead)
        /\ m <= Scale => below = {}
        /\ ProbeStored

C5_Witness ==
  /\ probe.stage = "out"
  /\ ProbePositions = {30, 40}
  /\ ProbeCallPositions = {10, 20}
  /\ ProbeStored

\* C6: a group with fewer than 2 records, or fewer than 2 records that have
\* a position, gets no placeholder upsert at all.
C6_SmallGroupNoGaps ==
  ( /\ probe.stage = "out"
    /\ (Len(probe.books) < 2 \/ Cardinality(ProbePositioned) < 2) )
  => /\ probe.calls = <<>>
     /\ store = {}

C6_Witness ==
  /\ probe.stage = "out"
  /\ Len(probe.books) = 1
  /\ ProbePositions = {20}
  /\ probe.calls = <<>>
  /\ store = {}

\* C7: every synthesized placeholder has an integer position, and a
\* fractional record neither suppresses nor shifts an integer gap: every
\* integer between the smallest and the largest position that no record
\* holds gets a placeholder.
C7_IntegerPlaceholders ==
  ( /\ probe.stage = "out"
    /\ Cardinality(ProbePositioned) >= 2 )
  => /\ \A c \in ProbeCallPositions : IsInteger(c)
     /\ \A g \in Smallest(ProbePositions)..Largest(ProbePositions) :
          (IsInteger(g) /\ g \notin ProbePositions) => g \in ProbeCallPositions

(***************************************************************************)
(* Properties of finished ingestions (Spec).                               *)
(***************************************************************************)
\* The rows a call added: their row ids were not in the store before it.
NewRows(e) == {r \in e.after : \A b \in e.before : b.id # r.id}

FailedAt(e, kind) == {f.n : f \in {g \in e.failed : g.kind = kind}}

\* Three rows of series Foo at positions 1, 2 and 4 with distinct ASINs.
IsFooScenario(books) ==
  /\ Len(books) = 3
  /\ \A j \in 1..3 : books[j].series_name = Str(Foo) /\ books[j].asin # Nil
  /\ \A j, l \in 1..3 : j # l => books[j].asin # books[l].asin
  /\ {books[j].series_position : j \in 1..3} = {Num(10), Num(20), Num(40)}

\* C8: from an empty store, ingesting three rows of series Foo at positions
\* 1, 2 and 4 ends with 4 rows, 3 of them owned and one an unowned
\* placeholder at position 3, and returns missingBooksFound = 1.
C8_FooScenario ==
  \A n \in 1..Len(log) :
    ( /\ CleanReturn(log[n])
      /\ log[n].before = {}
      /\ IsFooScenario(log[n].books) )
    => /\ Cardinality(log[n].after) = 4
       /\ Cardinality({r \in log[n].after : r.owned}) = 3
       /\ \E r \in log[n].after :
            /\ IsPlaceholderRow(r)
            /\ r.series_name = Str(Foo)
            /\ r.series_position = Num(30)
       /\ log[n].result.missingBooksFound = 1
       /\ log[n].result.processed = 3

C8_Witness ==
  \E n \in 1..Len(log) :
    /\ CleanReturn(log[n])
    /\ log[n].before = {}
    /\ IsFooScenario(log[n].books)
    /\ Cardinality(log[n].after) = 4
    /\ log[n].result.missingBooksFound = 1

\* C9: a failing upsert of a real record is absorbed: the call still
\* returns its summary, and every other record of the batch is upserted.
C9_RealFailureAbsorbed ==
  \A n \in 1..Len(log) :
    ( /\ FailedAt(log[n], "real") # {}
      /\ FailedAt(log[n], "read") = {}
      /\ FailedAt(log[n], "count") = {} )
    => /\ log[n].outcome = "returned"
       /\ \A j \in 1..Len(log[n].books) :
            j \notin FailedAt(log[n], "real")
              => \E r \in NewRows(log[n]) :
                   /\ r.owned
                   /\ r.asin = log[n].books[j].asin
                   /\ r.series_position = log[n].books[j].series_position

\* C10: a failing placeholder upsert is caught: the call goes on to every
\* remaining gap position and series group, stores each placeholder whose
\* upsert did not fail, and returns its summary.
C10_PlaceholderFailureIsolated ==
  \A n \in 1..Len(log) :
    ( /\ log[n].failed # {}
      /\ \A f \in log[n].failed : f.kind = "placeholder" )
    => LET e == log[n]
           made == {r \in NewRows(e) : IsPlaceholderRow(r)}
       IN /\ e.outcome = "returned"
          /\ e.result.processed = Len(e.books)
          /\ Cardinality(made)
               = Len(e.calls) - Cardinality(FailedAt(e, "placeholder"))
          /\ \A k \in 1..Len(e.calls) :
               k \notin FailedAt(e, "placeholder")
                 => \E r \in made :
                      /\ r.series_name = e.calls[k].seriesName
                      /\ r.series_position = Num(e.calls[k].position)

C10_Witness ==
  \E n \in 1..Len(log) :
    LET e == log[n]
    IN /\ e.outcome = "returned"
       /\ FailedAt(e, "placeholder") = {1}
       /\ Len(e.calls) = 3
       /\ e.calls[2].seriesName = e.calls[1].seriesName
       /\ e.calls[3].seriesName # e.calls[1].seriesName
       /\ Cardinality({r \in NewRows(e) : IsPlaceholderRow(r)}) = 2

\* C11: when reading or parsing the source table fails, the call rejects
\* with that error, it has issued no upsert and the store is as it was.
C11_BatchFailure ==
  \A n \in 1..Len(log) :
    FailedAt(log[n], "read") # {}
    => /\ log[n].outcome = "rejected"
       /\ log[n].result = NoResult
       /\ log[n].books = <<>>
       /\ NewRows(log[n]) = {}
       /\ log[n].after = log[n].before

C11_Witness ==
  \E n \in 1..Len(log) :
    /\ FailedAt(log[n], "read") # {}
    /\ log[n].outcome = "rejected"
    /\ log[n].before # {}
    /\ log[n].after = log[n].before

\* The last record of a batch carrying the asin a.
LastWithAsin(books, a) ==
  books[Largest({j \in 1..Len(books) : AsText(books[j].asin) = a})]

\* C14: the store never holds two records with the same non-null asin; after
\* an ingestion each asin of the batch is held by exactly one record, the one
\* written for the last row of the batch carrying it, whether or not the
\* asin was stored before.
C14_OneRecordPerAsin ==
  /\ \A r1, r2 \in store :
       (r1.asin # Nil /\ r1.asin = r2.asin) => r1.id = r2.id
  /\ \A n \in 1..Len(log) :
       CleanReturn(log[n]) =>
         \A j \in 1..Len(log[n].books) :
           LET a == AsText(log[n].books[j].asin)
               held == {r \in log[n].after : r.asin = a}
           IN a # Nil
              => /\ Cardinality(held) = 1
                 /\ \A r \in held :
                      Fields(r) = Fields(StoredRow(r.id, LastWithAsin(log[n].books, a)))

C14_Witness ==
  \E n \in 1..Len(log) :
    /\ CleanReturn(log[n])
    /\ \E old \in log[n].before, new \in log[n].after :
         /\ old.asin # Nil
         /\ new.asin = old.asin
         /\ new.series_position # old.series_position
         /\ Cardinality({r \in log[n].after : r.asin = old.asin}) = 1

\* The distinct series names of a batch that are neither absent nor ''.
BatchSeries(books) ==
  {books[j].series_name : j \in 1..Len(books)} \ {Nil, Str(<<>>)}

\* C16: a call that returns reports processed = the number of rows of the
\* table, series = the number of distinct non-empty cleaned series names of
\* the batch, and missingBooksFound = the number of all stored records with
\* owned = false after the ingestion.
C16_Summary ==
  \A n \in 1..Len(log) :
    log[n].outcome = "returned"
    => /\ log[n].result.processed = Len(Tables[log[n].table])
       /\ log[n].result.series = Cardinality(BatchSeries(log[n].books))
       /\ log[n].result.missingBooksFound =
            Cardinality({r \in log[n].after : ~r.owned})

C16_Witness ==
  \E n \in 1..Len(log) :
    /\ log[n].outcome = "returned"
    /\ \E j \in 1..Len(log[n].books) : log[n].books[j].series_name = Str(<<>>)
    /\ \E r \in log[n].before : ~r.owned
    /\ NewRows(log[n]) # {}
    /\ log[n].result.missingBooksFound > Cardinality({r \in NewRows(log[n]) : ~r.owned})
    /\ log[n].result.series >= 2

\* The placeholder rows a call has added to the store so far.
PlaceholdersOf(r) ==
  {x \in store : ~x.owned /\ \A b \in r.before : b.id # x.id}

\* C21: within a call, a placeholder is stored only after every real record
\* of the batch has been upserted; each placeholder call of the single
\* reconciliation is made once; and the count of the summary is read after
\* the last placeholder call.
C21_BatchOrdering ==
  \A p \in Procs :
    LET r == run[p]
    IN r.pc # "idle"
       => /\ (PlaceholdersOf(r) # {} \/ r.k > 1)
             => /\ r.i = Len(r.books) + 1
                /\ \A j \in 1..Len(r.books) :
                     AsText(r.books[j].asin) # Nil
                     => \E x \in store : x.asin = AsText(r.books[j].asin)
          /\ Cardinality(PlaceholdersOf(r))
               + Cardinality({f \in r.failed : f.kind = "placeholder"}) = r.k - 1
          /\ r.k <= Len(r.calls) + 1
          /\ r.pc = "returned"
             => /\ r.k = Len(r.calls) + 1
                /\ r.result.missingBooksFound
                     = Cardinality({x \in store : ~x.owned})

C21_Witness ==
  \E p \in Procs :
    /\ run[p].pc = "returned"
    /\ Len(run[p].books) >= 3
    /\ Cardinality(PlaceholdersOf(run[p])) >= 2
    /\ run[p].before # {}

\* The first record of a batch, in input order, with the series name S.
FirstOfSeries(books, S) ==
  books[Smallest({j \in 1..Len(books) : books[j].series_name = S})]

\* C22: every placeholder a call stored for series S at position p has the
\* title "S Book p", series name S, position p and the author of the first
\* row of the batch with series name S, positioned or not.
C22_PlaceholderContent ==
  \A n \in 1..Len(log) :
    \A x \in {r \in NewRows(log[n]) : ~r.owned} :
      /\ x.series_name.t = "str"
      /\ x.series_position.t = "num"
      /\ x.title = Str(x.series_name.s \o <<" ", "B", "o", "o", "k", " ">>
                       \o NumToString(x.series_position.n))
      /\ \E j \in 1..Len(log[n].books) : log[n].books[j].series_name = x.series_name
      /\ x.author = AsText(FirstOfSeries(log[n].books, x.series_name).author)

C22_Witness ==
  \E n \in 1..Len(log) :
    \E x \in {r \in NewRows(log[n]) : ~r.owned} :
      LET first == FirstOfSeries(log[n].books, x.series_name)
      IN /\ x.series_position = Num(2 * Scale)
         /\ first.series_position = Nil
         /\ first.author # Nil
         /\ x.author = first.author
         /\ \E j \in 1..Len(log[n].books) :
              /\ log[n].books[j].series_name = x.series_name
              /\ log[n].books[j].series_position # Nil
              /\ log[n].books[j].author # first.author

\* The positions of the records of series S in a batch that have one.
BatchPositions(books, S) ==
  {books[j].series_position.n :
     j \in {i \in 1..Len(books) : /\ books[i].series_name = S
                                  /\ books[i].series_position # Nil}}

\* Series S has at least two positioned records in the batch, all at
\* integer positions.
IntegerGroup(books, S) ==
  /\ Cardinality({i \in 1..Len(books) : /\ books[i].series_name = S
                                        /\ books[i].series_position # Nil}) >= 2
  /\ \A x \in BatchPositions(books, S) : IsInteger(x)

\* After the call, series S is stored at every integer position from 1 to
\* its largest position in the batch, and the call stored no placeholder of
\* S at a position of the batch or above the largest.
Covered(e, S) ==
  LET P == BatchPositions(e.books, S)
  IN /\ \A g \in Scale..Largest(P) :
          IsInteger(g)
          => \E r \in e.after : r.series_name = S /\ r.series_position = Num(g)
     /\ \A x \in {r \in NewRows(e) : ~r.owned /\ r.series_name = S} :
          /\ x.series_position.n \notin P
          /\ x.series_position.n <= Largest(P)

\* No two rows of the batch carry the same asin.
DistinctAsins(books) ==
  \A i, j \in 1..Len(books) :
    (i # j /\ books[i].asin # Nil) => books[i].asin # books[j].asin

\* C28 as stated: after an ingestion without storage failures, every series
\* with at least two positioned records in the batch, all at integer
\* positions, is covered from 1 to its largest position.
C28_ContiguousCoverage ==
  \A n \in 1..Len(log) :
    CleanReturn(log[n]) =>
      \A S \in BatchSeries(log[n].books) :
        IntegerGroup(log[n].books, S) => Covered(log[n], S)

\* C28, amended: the same for a batch in which no two rows carry the same
\* asin.
C28_CoverageDistinctAsins ==
  \A n \in 1..Len(log) :
    (CleanReturn(log[n]) /\ DistinctAsins(log[n].books)) =>
      \A S \in BatchSeries(log[n].books) :
        IntegerGroup(log[n].books, S) => Covered(log[n], S)

C28_Witness ==
  \E n \in 1..Len(log) :
    /\ CleanReturn(log[n])
    /\ DistinctAsins(log[n].books)
    /\ log[n].before # {}
    /\ \E S \in BatchSeries(log[n].books) :
         /\ IntegerGroup(log[n].books, S)
         /\ Smallest(BatchPositions(log[n].books, S)) > Scale
         /\ \E x \in NewRows(log[n]) : ~x.owned /\ x.series_name = S
         /\ Covered(log[n], S)

(***************************************************************************)
(* Properties of one normalized row (SpecNormalize).                       *)
(***************************************************************************)
\* C12: normalization never raises: whatever the cells of the row hold,
\* normalizeLibationData returns a record.
C12_NormalizationNeverRaises ==
  probe.stage = "normalized" => probe.book # Throw

\* A cell holds a non-empty value: it is there, not null and not ''.
NonEmptyCell(row, name) ==
  name \in DOMAIN row /\ row[name] # Nil /\ row[name] # Str(<<>>)

UnknownAuthor ==
  Str(<<"U", "n", "k", "n", "o", "w", "n", " ", "A", "u", "t", "h", "o", "r">>)

\* C17: the record has title "Unknown Title" when no title alias holds a
\* non-empty value, and author "Unknown Author" when no author alias does.
C17_RequiredFieldDefaults ==
  (probe.stage = "normalized" /\ probe.book # Throw)
  => /\ (\A a \in {"Title", "title", "BookTitle", "Product Name"} :
           ~NonEmptyCell(probe.row, a))
        => probe.book.title = UnknownTitle
     /\ (\A a \in {"Author", "author", "Authors", "By"} :
           ~NonEmptyCell(probe.row, a))
        => probe.book.author = UnknownAuthor

\* The alias table of the ingestion normalizer, field by field, in order.
AliasTable ==
  << <<"ASIN", "asin", "Asin">>,
     <<"Title", "title", "BookTitle", "Product Name">>,
     <<"Author", "author", "Authors", "By">>,
     <<"Narrator", "narrator", "Narrated By">>,
     <<"Series", "series", "Series Name">>,
     <<"Series Position", "Book #", "Book", "#">>,
     <<"Release Date", "Publication Date", "Date Added">>,
     <<"Purchase Date", "Date Purchased", "Added">>,
     <<"Length", "Duration", "Runtime">>,
     <<"Rating", "My Rating", "Overall Rating">> >>

\* Index of the first alias of a field holding a non-empty cell, or 0.
FirstNonEmpty(row, names) ==
  MinOrZero({i \in 1..Len(names) : NonEmptyCell(row, names[i])})

\* The row cut down to what alias resolution may use: per field, the cell
\* of its first non-empty alias, placed under the field's first alias.
ResolvedRow(row) ==
  LET used == {f \in 1..Len(AliasTable) : FirstNonEmpty(row, AliasTable[f]) # 0}
  IN [c \in {AliasTable[f][1] : f \in used} |->
        LET f == CHOOSE g \in used : AliasTable[g][1] = c
        IN row[AliasTable[f][FirstNonEmpty(row, AliasTable[f])]]]

\* C18: each field takes the cell of its first alias, in the listed order,
\* that is neither missing, null nor ''; later aliases and columns outside
\* the alias table do not affect the record.
C18_AliasResolution ==
  probe.stage = "normalized"
  => probe.book = normalizeLibationData(ResolvedRow(probe.row))

C18_Witness ==
  /\ probe.stage = "normalized"
  /\ "Notes" \in DOMAIN probe.row
  /\ "Title" \in DOMAIN probe.row /\ probe.row["Title"] = Str(<<>>)
  /\ "title" \in DOMAIN probe.row /\ probe.row["title"] = Str(Foo)
  /\ "BookTitle" \in DOMAIN probe.row /\ probe.row["BookTitle"] = Num(45)
  /\ probe.book.title = Str(Foo)

(***************************************************************************)
(* Properties of the store under ingestions and markAsListened calls       *)
(* (SpecUser).                                                             *)
(***************************************************************************)
\* C13: in every reachable state every stored placeholder (owned = false)
\* has listened = false and no asin, release date, purchase date, rating
\* or length.
C13_PlaceholderFields ==
  \A r \in store :
    ~r.owned
    => /\ ~r.listened
       /\ r.asin = Nil
       /\ r.release_date = Nil
       /\ r.purchase_date = Nil
       /\ r.rating = Nil
       /\ r.length_minutes = Nil

StoredAsins(st) == {r.asin : r \in st} \ {Nil}

SeriesPair(r) == <<r.series_name, r.series_position>>

\* The (series name, series position) pairs of the records in a series.
StoredPairs(st) == {SeriesPair(r) : r \in {q \in st : q.series_name # Nil}}

\* C19 as stated: no step of an ingestion or of markAsListened removes an
\* asin or a (series name, series position) pair from the store.
C19_NothingLost ==
  [][ /\ StoredAsins(store) \subseteq StoredAsins(store')
      /\ StoredPairs(store) \subseteq StoredPairs(store') ]_vars

\* C19, amended: no step removes an asin from the store, and a (series
\* name, series position) pair leaves the store only when every record
\* that carried it has an asin and was overwritten through that asin by a
\* record with another series name or position.
C19_NoHardDeletion ==
  [][ /\ StoredAsins(store) \subseteq StoredAsins(store')
      /\ \A r \in store :
           (r.series_name # Nil /\ SeriesPair(r) \notin StoredPairs(store'))
           => /\ r.asin # Nil
              /\ \E q \in store' : q.asin = r.asin /\ SeriesPair(q) # SeriesPair(r) ]_vars

C19_Witness ==
  \E n \in 1..Len(log) :
    /\ CleanReturn(log[n])
    /\ marks # <<>>
    /\ \E old \in log[n].before :
         /\ old.asin \in StoredAsins(log[n].after)
         /\ old.series_name # Nil
         /\ SeriesPair(old) \notin StoredPairs(log[n].after)
    /\ \E ph \in log[n].before :
         /\ IsPlaceholderRow(ph)
         /\ SeriesPair(ph) \in StoredPairs(log[n].after)

\* C20: in every store state, for each series reported by
\* getSeriesProgress, every stored record of the series is counted in
\* total_books, every placeholder of it in missing_books and none in
\* owned_books, so owned_books + missing_books = total_books; and the
\* total listening time is that of the series without its placeholders.
C20_PlaceholdersNotOwned ==
  \A s \in getSeriesProgress(store) :
    LET rows == {r \in store : r.series_name = s.series_name}
        placeholders == {r \in rows : ~r.owned}
    IN /\ s.total_books = Cardinality(rows)
       /\ s.missing_books = Cardinality(placeholders)
       /\ s.owned_books = Cardinality(rows \ placeholders)
       /\ s.owned_books + s.missing_books = s.total_books
       /\ \A t \in getSeriesProgress(store \ placeholders) :
            t.series_name = s.series_name
            => t.total_listening_time = s.total_listening_time

C20_Witness ==
  \E s \in getSeriesProgress(store) :
    /\ s.missing_books >= 1
    /\ s.owned_books >= 2
    /\ s.total_listening_time.n > 0
    /\ \E r \in store : r.series_name = s.series_name /\ ~r.owned /\ r.listened

\* markAsListened was called with the row id of x and found a row.
Marked(x) == \E k \in 1..Len(marks) : marks[k].id = x.id /\ marks[k].changed

\* C26: an ingested row whose asin is stored replaces the stored record as
\* a whole: the record of that asin is a new row, and a stored record is
\* listened only when markAsListened was called on that very row, a flag
\* set on the row it replaced being gone.
C26_ReingestionResetsListened ==
  /\ \A x \in store : x.listened => Marked(x)
  /\ \A n \in 1..Len(log) :
       CleanReturn(log[n]) =>
         \A j \in 1..Len(log[n].books) : \A x \in log[n].after :
           (x.asin # Nil /\ x.asin = AsText(log[n].books[j].asin))
           => /\ \A b \in log[n].before : b.id # x.id
              /\ x.listened => Marked(x)

C26_Witness ==
  \E n \in 1..Len(log) :
    /\ CleanReturn(log[n])
    /\ \E b \in log[n].before, x \in store :
         /\ b.listened
         /\ b.asin # Nil
         /\ x.asin = b.asin
         /\ x.id # b.id
         /\ ~x.listened

Unowned(st) == {r \in st : ~r.owned}

\* C29: the number of stored records with owned = false never decreases:
\* of two ingestions that returned, the later reports a missingBooksFound
\* at least as large as the earlier, and the store never holds fewer such
\* records than an ingestion has reported or found at its start.
C29_MissingNeverDecreases ==
  /\ \A n, m \in 1..Len(log) :
       (n <= m /\ log[n].outcome = "returned" /\ log[m].outcome = "returned")
       => /\ log[m].result.missingBooksFound >= log[n].result.missingBooksFound
          /\ n < m => Cardinality(Unowned(log[m].before))
                         >= log[n].result.missingBooksFound
          /\ Cardinality(Unowned(store)) >= log[m].result.missingBooksFound
  /\ \A p \in Procs :
       Active(run[p])
       => Cardinality(Unowned(store)) >= Cardinality(Unowned(run[p].before))

C29_Witness ==
  /\ Len(log) >= 2
  /\ log[1].outcome = "returned" /\ log[2].outcome = "returned"
  /\ log[1].result.missingBooksFound >= 1
  /\ \E ph \in Unowned(log[2].before) :
       /\ ph.listened
       /\ \E j \in 1..Len(log[2].books) :
            /\ log[2].books[j].series_name = ph.series_name
            /\ log[2].books[j].series_position = ph.series_position
  /\ log[2].result.missingBooksFound >= log[1].result.missingBooksFound

IsPercentage(v) ==
  v.t = "num" /\ IsInteger(v.n) /\ 0 <= v.n /\ v.n <= 100 * Scale

\* C30: for every series reported by getSeriesProgress, in every reachable
\* store, completion_percentage and ownership_percentage are integers
\* between 0 and 100.
C30_PercentageBounds ==
  \A s \in getSeriesProgress(store) :
    /\ IsPercentage(s.completion_percentage)
    /\ IsPercentage(s.ownership_percentage)

(***************************************************************************)
(* Properties of two interleaved ingestions (SpecConc).                    *)
(***************************************************************************)
\* Two calls made by different requests, the second to finish having
\* started before the first one finished.
Overlapping(e1, e2) == e1.proc # e2.proc /\ e2.before # e1.after

\* C15: when two parseLibationExport calls have run concurrently and both
\* have returned, the store holds no two placeholders for the same
\* (series name, series position) and every asin of either batch is stored.
C15_ConcurrentIngestions ==
  \A n \in 1..(Len(log) - 1) :
    ( /\ \A p \in Procs : ~Active(run[p])
      /\ n + 1 = Len(log)
      /\ CleanReturn(log[n]) /\ CleanReturn(log[n + 1])
      /\ Overlapping(log[n], log[n + 1]) )
    => /\ \A r1, r2 \in store :
            ( /\ IsPlaceholderRow(r1) /\ IsPlaceholderRow(r2)
              /\ r1.series_name = r2.series_name
              /\ r1.series_position = r2.series_position )
            => r1.id = r2.id
       /\ \A m \in {n, n + 1} : \A j \in 1..Len(log[m].books) :
            AsText(log[m].books[j].asin) # Nil
            => \E r \in store : r.asin = AsText(log[m].books[j].asin)

(***************************************************************************)
(* Properties of the field parsers, on one normalized row (SpecNormalize). *)
(***************************************************************************)
\* The cell alias resolution selects among the columns names, or null.
ResolvedCell(row, names) ==
  IF FirstNonEmpty(row, names) = 0 THEN Nil
  ELSE row[names[FirstNonEmpty(row, names)]]

\* C23: a row whose series value is nothing but the annotation "Book 3"
\* gets an absent series name and joins no series group.
C23_EmptyCleanedSeries ==
  ( /\ probe.stage = "normalized"
    /\ ResolvedCell(probe.row, <<"Series", "series", "Series Name">>)
         = Str(<<"B", "o", "o", "k", " ", "3">>) )
  => /\ probe.book.series_name = Nil
     /\ BuildSeriesMap(<<probe.book>>) = <<>>

\* The number written by the first run of digits of a cell, with its
\* optional fraction, or null when the cell is null or holds no digit.
FirstNumber(cell) ==
  IF cell = Nil THEN Nil
  ELSE LET s == ToStr(cell)
           m == MinOrZero({i \in 1..Len(s) : IsDigit(s[i])})
       IN IF m = 0 THEN Nil ELSE Num(FloatAt(s, m))

\* C24: the position of the record is the first number found in the
\* selected position cell, and absent only when the cell holds no digit; a
\* cell holding zero gives position 0.
C24_SeriesPosition ==
  (probe.stage = "normalized" /\ probe.book # Throw)
  => probe.book.series_position
       = FirstNumber(ResolvedCell(probe.row,
                                  <<"Series Position", "Book #", "Book", "#">>))

\* C25: the length of the record is, in minutes, what the first matching
\* form of the selected length cell gives, the forms being tried in the
\* order hours-and-minutes, colon time (seconds ignored), minutes alone,
\* hours alone, on the lower-cased value; a cell in none of the forms
\* gives an absent length.
C25_DurationPriority ==
  (probe.stage = "normalized" /\ probe.book # Throw)
  => LET cell == ResolvedCell(probe.row, <<"Length", "Duration", "Runtime">>)
         len == probe.book.length_minutes
     IN
     /\ cell = Str(<<"1", " ", "h", "r", " ", "5", " ", "m", "i", "n">>)   \* hours and minutes
        => len = Num(65 * Scale)
     /\ cell = Str(<<"2", " ", "H", "r", "s", " ", "3", "0", " ", "M", "i", "n", "s">>)   \* upper case, plural units
        => len = Num(150 * Scale)
     /\ cell = Str(<<"1", ":", "0", "5">>)   \* colon time
        => len = Num(65 * Scale)
     /\ cell = Str(<<"1", ":", "0", "5", ":", "3", "0">>)   \* colon time with seconds
        => len = Num(65 * Scale)
     /\ cell = Str(<<"4", "5", " ", "m", "i", "n">>)   \* minutes alone
        => len = Num(45 * Scale)
     /\ cell = Str(<<"2", " ", "h", "r", "s">>)   \* hours alone
        => len = Num(120 * Scale)
     /\ cell = Str(<<"1", " ", "h", "r", " ", "5", " ", "m", "i", "n", " ", "2", ":", "0", "0">>)   \* hours-and-minutes before colon time
        => len = Num(65 * Scale)
     /\ cell = Str(<<"2", ":", "3", "0", " ", "5", " ", "m", "i", "n">>)   \* colon time before minutes alone
        => len = Num(150 * Scale)
     /\ cell = Str(<<"5", " ", "m", "i", "n", " ", "2", " ", "h", "r">>)   \* minutes alone before hours alone
        => len = Num(5 * Scale)
     /\ cell = Str(<<"9", "0">>)   \* a bare number
        => len = Nil
     /\ cell \in RowCells \cup {Nil} => len = Nil

C25_Witness ==
  /\ probe.stage = "normalized"
  /\ "Length" \in DOMAIN probe.row /\ probe.row["Length"] = Str(<<>>)
  /\ "Duration" \in DOMAIN probe.row
  /\ probe.row["Duration"] = Str(<<"2", ":", "3", "0", " ", "5", " ", "m", "i", "n">>)
  /\ "Runtime" \in DOMAIN probe.row
  /\ probe.row["Runtime"] = Str(<<"4", "5", " ", "m", "i", "n">>)
  /\ probe.book.length_minutes = Num(150 * Scale)

====
